---- MODULE Spec2Model ----
(***************************************************************************)
(* The streaming analysis session of frontend/src/App.jsx: the React       *)
(* component state (curriculum, submitted, streaming, messages, progress), *)
(* the job-creation requests it has in flight, and the EventSource         *)
(* connections it has opened, with the handlers handleSubmit, handleView,  *)
(* eventSource.onmessage and eventSource.onerror.                          *)
(***************************************************************************)
EXTENDS Integers, Sequences, FiniteSets, TLC

VARIABLES
    curriculum,   \* useState("")    : text of the input field
    submitted,    \* useState(false) : a job-creation request has succeeded
    streaming,    \* useState(false) : the streaming indicator
    messages,     \* useState([])    : the timeline
    progress,     \* useState([])    : the steps seen so far, in order
    mounted,      \* the component is still rendered
    fetches,      \* the job-creation requests awaiting their response: <<[text]>>
    sources,      \* the EventSource objects alive: <<[url, readyState, closes]>>,
                  \* closes (history) counting the close() calls made on it
    received,     \* history: the events dispatched on the newest source
    posted,       \* history: the text of the request whose success set submitted
    payload,      \* the event body under classification (SpecClassify only)
    exported,     \* what getAnalysisText returned to the last Download PDF
    last          \* history: the step taken last

vars == <<curriculum, submitted, streaming, messages, progress, mounted,
          fetches, sources, received, posted, payload, exported, last>>

(***************************************************************************)
(* Bounds of the model.                                                    *)
(***************************************************************************)
MaxSubmits == 2
MaxConns == 2
MaxEvents == 3

(***************************************************************************)
(* JavaScript values, as far as the handlers look at them.                 *)
(***************************************************************************)
Undef == [t |-> "undefined"]
Null == [t |-> "null"]
Str(s) == [t |-> "string", s |-> s]
Arr(a) == [t |-> "array", a |-> a]
Obj(f) == [t |-> "object", f |-> f]

\* ToBoolean: undefined, null and "" are falsy, arrays and objects truthy.
Truthy(v) ==
    CASE v.t = "undefined" -> FALSE
      [] v.t = "null" -> FALSE
      [] v.t = "string" -> v.s /= ""
      [] OTHER -> TRUE

\* a || b
Or(a, b) == IF Truthy(a) THEN a ELSE b

\* v.k for a v that is neither null nor undefined
Get(v, k) == IF v.t = "object" /\ k \in DOMAIN v.f THEN v.f[k] ELSE Undef

\* v?.k
OptGet(v, k) == IF v.t \in {"undefined", "null"} THEN Undef ELSE Get(v, k)

\* v === "s"
Is(v, s) == v.t = "string" /\ v.s = s

(***************************************************************************)
(* The body of one push event: text that JSON.parse either rejects or      *)
(* turns into a value.                                                     *)
(***************************************************************************)
Malformed == [wf |-> FALSE, val |-> Undef]
Json(v) == [wf |-> TRUE, val |-> v]

\* The event bodies the model's server can send.
Events == <<
    Malformed,
    Json(Null),
    Json(Obj([step |-> Str("skills_extracted"),
              data |-> Arr(<<Str("Python"), Str("SQL")>>)])),
    Json(Obj([step |-> Str("extracting_skills"),
              message |-> Str("Analyzing your curriculum...")])),
    Json(Obj([step |-> Str("complete")])),
    Json(Obj([error |-> Str("rate limited")])),
    Json(Obj([error |-> Str("")])),
    Json(Obj([step |-> Str("summary_generated"), error |-> Str("timeout")]))
>>

EventIds == 1..Len(Events)

\* The input texts the user can type.
Texts == {<<" ">>, <<"a">>, <<"b">>}

\* String.prototype.trim on a text
RECURSIVE TrimLeft(_)
TrimLeft(s) == IF s /= <<>> /\ Head(s) = " " THEN TrimLeft(Tail(s)) ELSE s

RECURSIVE TrimRight(_)
TrimRight(s) ==
    IF s /= <<>> /\ s[Len(s)] = " " THEN TrimRight(SubSeq(s, 1, Len(s) - 1)) ELSE s

\* Faulty variant of trim: the text as it is.
trimNone(s) == s

trim(s) == TrimRight(TrimLeft(s))

(***************************************************************************)
(* eventSource.onmessage, the part that computes: JSON.parse, the message  *)
(* type, the content, and whether the event ends the run.                  *)
(***************************************************************************)
\* try { JSON.parse(event.data); parsed.step ... } throws: on text that is not
\* JSON (SyntaxError) and on the JSON value null (TypeError on parsed.step).
Throws(raw) == ~raw.wf \/ raw.val.t = "null"

msgType(parsed) ==
    LET step == Get(parsed, "step") IN
    IF \/ Is(step, "summary_generated")
       \/ Is(step, "major_project_generated")
       \/ Is(step, "mini_projects_generated")
    THEN "markdown"
    ELSE IF \/ Is(step, "skills_extracted")
            \/ Is(step, "roles_identified")
            \/ Is(step, "gaps_analyzed")
    THEN "list"
    ELSE IF Is(step, "jobs_fetched") THEN "jobs"
    ELSE IF Truthy(Get(parsed, "error")) THEN "error"
    ELSE "text"

\* Faulty variant of content: job_market_skills looked up before missing_skills.
contentSwapped(parsed) ==
    LET data == Get(parsed, "data") IN
    IF msgType(parsed) = "list"
    THEN IF data.t = "array"
         THEN data
         ELSE Or(OptGet(data, "job_market_skills"),
                 Or(OptGet(data, "missing_skills"), Arr(<<>>)))
    ELSE Or(data, Or(Get(parsed, "message"), Get(parsed, "error")))

content(parsed) ==
    LET data == Get(parsed, "data") IN
    IF msgType(parsed) = "list"
    THEN IF data.t = "array"
         THEN data
         ELSE Or(OptGet(data, "missing_skills"),
                 Or(OptGet(data, "job_market_skills"), Arr(<<>>)))
    ELSE Or(data, Or(Get(parsed, "message"), Get(parsed, "error")))

\* The object pushed onto messages for a parsed event.
message(parsed) ==
    [type |-> msgType(parsed), step |-> Get(parsed, "step"),
     content |-> content(parsed)]

\* if (parsed.step === "complete" || parsed.error)
terminal(parsed) == Is(Get(parsed, "step"), "complete") \/ Truthy(Get(parsed, "error"))

parseErrorMessage ==
    [type |-> "error", step |-> Undef, content |-> Str("Error parsing stream data.")]

streamErrorMessage ==
    [type |-> "error", step |-> Undef,
     content |-> Str("[Stream ended or error occurred]")]

postFailedMessage ==
    [type |-> "error", step |-> Undef, content |-> Str("POST failed: 500")]

fetchErrorMessage ==
    [type |-> "error", step |-> Undef,
     content |-> Str("Error: TypeError: Failed to fetch")]

\* Faulty variant of addStep: [...prev, parsed.step] without the includes test.
addStepAlways(prev, step) == Append(prev, step)

\* prev.includes(parsed.step) ? prev : [...prev, parsed.step]
addStep(prev, step) ==
    IF \E i \in 1..Len(prev) : prev[i] = step THEN prev ELSE Append(prev, step)

\* eventSource.close() on source c
close(srcs, c) ==
    [srcs EXCEPT ![c].readyState = "CLOSED", ![c].closes = @ + 1]

\* The sequence s without its i-th element.
Remove(s, i) == SubSeq(s, 1, i - 1) \o SubSeq(s, i + 1, Len(s))

\* A closed EventSource dispatches nothing more; once a new one is created the
\* closed ones are unreachable and are dropped from the state.
IsOpen(src) == src.readyState = "OPEN"
Alive(srcs) == SelectSeq(srcs, IsOpen)

\* The history record of a step: the handler that ran, the source or request it
\* ran for (0: none), the event it was given (0: none), and how many closed
\* sources it dropped.
Did(op, c, ev) == [op |-> op, c |-> c, ev |-> ev, dropped |-> 0]

(***************************************************************************)
(* getAnalysisText.  A text is the sequence of its pieces; what a call     *)
(* gives is a text or a TypeError.                                         *)
(***************************************************************************)
Text(pieces) == [raised |-> FALSE, text |-> pieces]
TypeError == [raised |-> TRUE, text |-> <<>>]

\* The characters of a text: each markup character and each blank on its own,
\* a run of other characters kept together as one piece.
chars(s) ==
    CASE s = "" -> <<>>
      [] s = "## Summary" -> <<"#", "#", " ", "Summary">>
      [] OTHER -> <<s>>

\* The character class of the regular expression: # * _ backtick > -
Markup == {"#", "*", "_", "backtick", ">", "-"}
NotMarkup(ch) == ch \notin Markup

\* .replace(<the character class>, "")
replace(cs) == SelectSeq(cs, NotMarkup)

\* Array.prototype.join on texts
RECURSIVE join(_, _)
join(texts, sep) ==
    IF texts = <<>> THEN <<>>
    ELSE IF Len(texts) = 1 THEN texts[1]
    ELSE texts[1] \o <<sep>> \o join(Tail(texts), sep)

\* An array element as join and toString print it: nothing for undefined and
\* null.  Nested arrays do not occur in the payloads.
element(v) ==
    CASE v.t \in {"undefined", "null"} -> <<>>
      [] v.t = "string" -> chars(v.s)
      [] v.t = "array" -> <<"...">>
      [] OTHER -> <<"[object Object]">>

\* The text a value becomes in "..." + value and in a template literal
toString(v) ==
    CASE v.t = "undefined" -> <<"undefined">>
      [] v.t = "null" -> <<"null">>
      [] v.t = "string" -> chars(v.s)
      [] v.t = "array" -> join([i \in 1..Len(v.a) |-> element(v.a[i])], ",")
      [] OTHER -> <<"[object Object]">>

\* msg.step ? msg.step + sep : ""
label(msg, sep) == IF Truthy(msg.step) THEN <<msg.step.s, sep>> ELSE <<>>

header ==
    <<"Title | Company | Location | Source | Posted | Salary | Link\n",
      "----- | ------- | -------- | ------ | ------ | ------ | ----">>

\* [job.title, ..., job.job_url].join(" | ")
row(job) ==
    join([i \in 1..7 |->
            element(Get(job, <<"title", "company", "location", "source_platform",
                               "posted_date", "salary", "job_url">>[i]))],
         " | ")

\* The condition of the job table branch
isJobTable(msg) ==
    /\ Is(msg.step, "jobs_fetched")
    /\ msg.content.t = "array"
    /\ Len(msg.content.a) > 0
    /\ msg.content.a[1].t \in {"object", "array", "null"}

\* The callback of messages.map throws a TypeError: replace or map called on
\* a content that has no such method, or a field read from null or undefined.
throws(msg) ==
    IF msg.type = "markdown" THEN msg.content.t /= "string"
    ELSE IF msg.type = "list" THEN msg.content.t /= "array"
    ELSE IF isJobTable(msg)
    THEN \E i \in 1..Len(msg.content.a) : msg.content.a[i].t \in {"undefined", "null"}
    ELSE FALSE

\* The callback of messages.map
segment(msg) ==
    IF msg.type = "markdown" THEN trim(replace(chars(msg.content.s)))
    ELSE IF msg.type = "list"
    THEN label(msg, ":\n")
         \o join([i \in 1..Len(msg.content.a) |->
                    <<"- ">> \o toString(msg.content.a[i])], "\n")
    ELSE IF isJobTable(msg)
    THEN label(msg, ":\n") \o header \o <<"\n">>
         \o join([i \in 1..Len(msg.content.a) |-> row(msg.content.a[i])], "\n")
    ELSE IF msg.type = "error" THEN <<"Error: ">> \o toString(msg.content)
    ELSE label(msg, ": ") \o toString(msg.content)

separator == "\n\n---\n\n"

getAnalysisText(msgs) ==
    IF \E i \in 1..Len(msgs) : throws(msgs[i])
    THEN TypeError
    ELSE Text(join([i \in 1..Len(msgs) |-> segment(msgs[i])], separator))

(***************************************************************************)
(* The state after construction.                                           *)
(***************************************************************************)
Init ==
    /\ curriculum = <<>>
    /\ submitted = FALSE
    /\ streaming = FALSE
    /\ messages = <<>>
    /\ progress = <<>>
    /\ mounted = TRUE
    /\ fetches = <<>>
    /\ sources = <<>>
    /\ received = <<>>
    /\ posted = <<>>
    /\ payload = Malformed
    /\ exported = Text(<<>>)
    /\ last = Did("init", 0, 0)

(***************************************************************************)
(* The handlers.  A handler of a component that is no longer mounted runs, *)
(* but its state setters change nothing.                                   *)
(***************************************************************************)
\* <Textarea onChange={(e) => setCurriculum(e.target.value)} disabled={streaming}>
setCurriculum(text) ==
    /\ mounted
    /\ ~streaming
    /\ text /= curriculum
    /\ curriculum' = text
    /\ last' = Did("setCurriculum", 0, 0)
    /\ UNCHANGED <<exported, payload, posted, submitted, streaming, messages, progress, mounted,
                   fetches, sources, received>>

\* Faulty variant of handleSubmit: setMessages([]) and setProgress([]) left out.
handleSubmitKeeps ==
    /\ mounted
    /\ ~streaming
    /\ Len(fetches) < MaxSubmits
    /\ last' = Did("handleSubmit", 0, 0)
    /\ IF trim(curriculum) = <<>>
       THEN UNCHANGED <<exported, payload, posted, curriculum, submitted, streaming, messages, progress,
                        mounted, fetches, sources, received>>
       ELSE /\ submitted' = FALSE
            /\ streaming' = FALSE
            /\ fetches' = Append(fetches, [text |-> curriculum])
            /\ received' = <<>>
            /\ posted' = <<>>
            /\ UNCHANGED <<exported, payload, curriculum, mounted, sources, messages, progress>>

\* handleSubmit up to its await: the Analyze button is disabled={streaming}.
handleSubmit ==
    /\ mounted
    /\ ~streaming
    /\ Len(fetches) < MaxSubmits
    /\ last' = Did("handleSubmit", 0, 0)
    /\ IF trim(curriculum) = <<>>
       THEN UNCHANGED <<exported, payload, posted, curriculum, submitted, streaming, messages, progress,
                        mounted, fetches, sources, received>>
       ELSE /\ messages' = <<>>
            /\ progress' = <<>>
            /\ submitted' = FALSE
            /\ streaming' = FALSE
            /\ fetches' = Append(fetches, [text |-> curriculum])
            /\ received' = <<>>
            /\ posted' = <<>>
            /\ UNCHANGED <<exported, payload, curriculum, mounted, sources>>

\* handleSubmit after its await, res.ok
handleSubmitOk(i) ==
    /\ fetches' = Remove(fetches, i)
    /\ submitted' = IF mounted THEN TRUE ELSE submitted
    /\ posted' = IF mounted THEN fetches[i].text ELSE posted
    /\ last' = Did("handleSubmitOk", i, 0)
    /\ UNCHANGED <<exported, payload, curriculum, streaming, messages, progress, mounted, sources,
                   received>>

\* handleSubmit after its await, !res.ok
handleSubmitNotOk(i) ==
    /\ fetches' = Remove(fetches, i)
    /\ messages' = IF mounted THEN <<postFailedMessage>> ELSE messages
    /\ last' = Did("handleSubmitNotOk", i, 0)
    /\ UNCHANGED <<exported, payload, posted, curriculum, submitted, streaming, progress, mounted, sources,
                   received>>

\* handleSubmit after its await, fetch rejected
handleSubmitCatch(i) ==
    /\ fetches' = Remove(fetches, i)
    /\ messages' = IF mounted THEN <<fetchErrorMessage>> ELSE messages
    /\ last' = Did("handleSubmitCatch", i, 0)
    /\ UNCHANGED <<exported, payload, posted, curriculum, submitted, streaming, progress, mounted, sources,
                   received>>

\* Faulty variant of handleViewEnabled: disabled={streaming}.
handleViewEnabledAlways == mounted /\ ~streaming

\* The View Results button is disabled={!submitted || streaming}.
handleViewEnabled == mounted /\ submitted /\ ~streaming

handleView ==
    /\ handleViewEnabled
    /\ messages' = <<>>
    /\ streaming' = TRUE
    /\ progress' = <<>>
    /\ Len(Alive(sources)) < MaxConns
    /\ sources' = Append(Alive(sources), [url |-> curriculum, readyState |-> "OPEN", closes |-> 0])
    /\ received' = <<>>
    /\ last' = [op |-> "handleView", c |-> Len(Alive(sources)) + 1, ev |-> 0,
                dropped |-> Len(sources) - Len(Alive(sources))]
    /\ UNCHANGED <<exported, payload, posted, curriculum, submitted, mounted, fetches>>

(***************************************************************************)
(* Faulty variants of the stream handlers: each is the handler it is named *)
(* after with one slip the code could contain.  None is part of Next.      *)
(***************************************************************************)
\* onmessage, try block: setStreaming(false) without eventSource.close()
onmessageTryNoClose(c, parsed) ==
    /\ messages' = IF mounted THEN Append(messages, message(parsed)) ELSE messages
    /\ progress' = IF mounted /\ Truthy(Get(parsed, "step"))
                   THEN addStep(progress, Get(parsed, "step"))
                   ELSE progress
    /\ streaming' = IF mounted /\ terminal(parsed) THEN FALSE ELSE streaming
    /\ UNCHANGED sources

\* onmessage, catch block: the exception is swallowed (catch {})
onmessageCatchSilent(c) ==
    /\ UNCHANGED <<messages, progress, sources, streaming>>

\* onerror without eventSource.close()
onerrorNoClose(c) ==
    /\ sources[c].readyState = "OPEN"
    /\ messages' = IF mounted THEN Append(messages, streamErrorMessage) ELSE messages
    /\ streaming' = IF mounted THEN FALSE ELSE streaming
    /\ last' = Did("onerror", c, 0)
    /\ UNCHANGED <<exported, payload, posted, curriculum, submitted, progress, mounted, fetches, sources,
                   received>>

\* onerror that records nothing
onerrorSilent(c) ==
    /\ sources[c].readyState = "OPEN"
    /\ sources' = close(sources, c)
    /\ streaming' = IF mounted THEN FALSE ELSE streaming
    /\ last' = Did("onerror", c, 0)
    /\ UNCHANGED <<exported, payload, posted, curriculum, submitted, messages, progress, mounted, fetches,
                   received>>

\* onerror with setMessages([...]) in place of setMessages((prev) => [...prev, ...])
onerrorReplace(c) ==
    /\ sources[c].readyState = "OPEN"
    /\ messages' = IF mounted THEN <<streamErrorMessage>> ELSE messages
    /\ sources' = close(sources, c)
    /\ streaming' = IF mounted THEN FALSE ELSE streaming
    /\ last' = Did("onerror", c, 0)
    /\ UNCHANGED <<exported, payload, posted, curriculum, submitted, progress, mounted, fetches, received>>

\* The try block of eventSource.onmessage ran to its end.
onmessageTry(c, parsed) ==
    /\ messages' = IF mounted THEN Append(messages, message(parsed)) ELSE messages
    /\ progress' = IF mounted /\ Truthy(Get(parsed, "step"))
                   THEN addStep(progress, Get(parsed, "step"))
                   ELSE progress
    /\ IF terminal(parsed)
       THEN /\ sources' = close(sources, c)
            /\ streaming' = IF mounted THEN FALSE ELSE streaming
       ELSE UNCHANGED <<sources, streaming>>

\* Faulty variant of onmessageCatch: setStreaming(false) left out.
onmessageCatchKeepsStreaming(c) ==
    /\ messages' = IF mounted THEN Append(messages, parseErrorMessage) ELSE messages
    /\ sources' = close(sources, c)
    /\ UNCHANGED <<progress, streaming>>

\* The catch block of eventSource.onmessage.
onmessageCatch(c) ==
    /\ messages' = IF mounted THEN Append(messages, parseErrorMessage) ELSE messages
    /\ sources' = close(sources, c)
    /\ streaming' = IF mounted THEN FALSE ELSE streaming
    /\ UNCHANGED progress

\* An event that arrives for a source that was closed: an EventSource
\* dispatches its events only while it is not CLOSED, so no handler runs.
discard(c) ==
    /\ sources[c].readyState = "CLOSED"
    /\ last' = Did("discard", c, 0)
    /\ UNCHANGED <<exported, payload, posted, curriculum, submitted, streaming, messages, progress, mounted,
                   fetches, sources, received>>

onmessage(c, e) ==
    /\ sources[c].readyState = "OPEN"
    /\ Len(received) < MaxEvents
    /\ IF Throws(Events[e]) THEN onmessageCatch(c) ELSE onmessageTry(c, Events[e].val)
    /\ received' = IF c = Len(sources) THEN Append(received, e) ELSE received
    /\ last' = Did("onmessage", c, e)
    /\ UNCHANGED <<exported, payload, posted, curriculum, submitted, mounted, fetches>>

onerror(c) ==
    /\ sources[c].readyState = "OPEN"
    /\ messages' = IF mounted THEN Append(messages, streamErrorMessage) ELSE messages
    /\ sources' = close(sources, c)
    /\ streaming' = IF mounted THEN FALSE ELSE streaming
    /\ last' = Did("onerror", c, 0)
    /\ UNCHANGED <<exported, payload, posted, curriculum, submitted, progress, mounted, fetches, received>>

\* The component goes away.  App.jsx registers no effect cleanup, so nothing
\* else happens.
unmount ==
    /\ mounted
    /\ mounted' = FALSE
    /\ last' = Did("unmount", 0, 0)
    /\ UNCHANGED <<exported, payload, posted, curriculum, submitted, streaming, messages, progress, fetches,
                   sources, received>>

Next ==
    \/ \E text \in Texts : setCurriculum(text)
    \/ handleSubmit
    \/ \E i \in 1..Len(fetches) : handleSubmitOk(i)
    \/ \E i \in 1..Len(fetches) : handleSubmitNotOk(i)
    \/ \E i \in 1..Len(fetches) : handleSubmitCatch(i)
    \/ handleView
    \/ \E c \in 1..Len(sources), e \in EventIds : onmessage(c, e)
    \/ \E c \in 1..Len(sources) : discard(c)
    \/ \E c \in 1..Len(sources) : onerror(c)
    \/ unmount

Spec == Init /\ [][Next]_vars

(***************************************************************************)
(* One run from the moment View Results has opened its connection, with or *)
(* without an earlier job-creation request still awaiting its response,    *)
(* and a server that ends every stream sooner or later: if nothing else    *)
(* closes an open source, the transport breaks and the browser calls its   *)
(* onerror.                                                                *)
(***************************************************************************)
InitStream ==
    /\ curriculum = <<"a">>
    /\ submitted = TRUE
    /\ streaming = TRUE
    /\ messages = <<>>
    /\ progress = <<>>
    /\ mounted = TRUE
    /\ fetches \in {<<>>, <<[text |-> <<"a">>]>>}
    /\ sources = <<[url |-> <<"a">>, readyState |-> "OPEN", closes |-> 0]>>
    /\ received = <<>>
    /\ posted = <<"a">>
    /\ payload = Malformed
    /\ exported = Text(<<>>)
    /\ last = [op |-> "handleView", c |-> 1, ev |-> 0, dropped |-> 0]

NextStream ==
    \/ \E c \in 1..Len(sources), e \in EventIds : onmessage(c, e)
    \/ \E c \in 1..Len(sources) : discard(c)
    \/ \E c \in 1..Len(sources) : onerror(c)
    \/ \E i \in 1..Len(fetches) : handleSubmitOk(i)
    \/ \E i \in 1..Len(fetches) : handleSubmitNotOk(i)
    \/ \E i \in 1..Len(fetches) : handleSubmitCatch(i)
    \/ unmount

SpecStream ==
    /\ InitStream
    /\ [][NextStream]_vars
    /\ WF_vars(\E c \in 1..Len(sources) : onerror(c))

(***************************************************************************)
(* The stepper: the catalog of steps and the position of the current one.  *)
(***************************************************************************)
\* The keys of STEPS, in order
STEPS == <<
    "extracting_skills", "skills_extracted", "identifying_roles",
    "roles_identified", "fetching_jobs", "jobs_fetched", "generating_summary",
    "summary_generated", "analyzing_gaps", "gaps_analyzed",
    "generating_projects", "major_project_generated",
    "mini_projects_generated", "complete"
>>

\* STEPS.findIndex((s) => s.key === step): 0-based, -1 when there is none
findIndex(step) ==
    IF \E i \in 1..Len(STEPS) : Is(step, STEPS[i])
    THEN (CHOOSE i \in 1..Len(STEPS) :
             /\ Is(step, STEPS[i])
             /\ \A j \in 1..(i - 1) : ~Is(step, STEPS[j])) - 1
    ELSE -1

currentStepIdx ==
    IF Len(progress) > 0 THEN findIndex(progress[Len(progress)]) ELSE 0

(***************************************************************************)
(* Classification on its own: a run is streaming, the server sends one     *)
(* well-formed object whose fields step, data, message and error are each  *)
(* absent or one of a few values, and onmessage handles it.                *)
(***************************************************************************)
MaxPayloads == 1

\* The values each field can take; Undef stands for "field absent".
StepOptions == <<
    Undef,
    Str("summary_generated"), Str("major_project_generated"),
    Str("mini_projects_generated"),
    Str("skills_extracted"), Str("roles_identified"), Str("gaps_analyzed"),
    Str("jobs_fetched"),
    Str("extracting_skills"), Str("complete")
>>

DataOptions == <<
    Undef,
    Str(""),
    Str("## Summary"),
    Arr(<<>>),
    Arr(<<Str("Python"), Str("SQL")>>),
    Obj(<<>>),
    Obj([missing_skills |-> Arr(<<Str("Docker")>>)]),
    Obj([job_market_skills |-> Arr(<<Str("AWS")>>)]),
    Obj([missing_skills |-> Arr(<<>>), job_market_skills |-> Arr(<<Str("AWS")>>)]),
    Arr(<<Obj([title |-> Str("Engineer"), company |-> Str("Acme")])>>),
    Arr(<<Str("n/a"),
          Obj([title |-> Str("Analyst"), salary |-> Str("90k")]),
          Obj([title |-> Str("Engineer"), company |-> Str("Acme")])>>)
>>

MessageOptions == <<Undef, Str(""), Str("Working...")>>

ErrorOptions == <<Undef, Str(""), Str("rate limited")>>

\* The JSON object with exactly the fields that are not absent.
Payload(step, data, msg, error) ==
    LET all == [step |-> step, data |-> data, message |-> msg, error |-> error]
        present == {k \in DOMAIN all : all[k].t /= "undefined"}
    IN  Json(Obj([k \in present |-> all[k]]))

\* The state after setCurriculum, handleSubmit, res.ok and handleView.
InitClassify ==
    /\ curriculum = <<"a">>
    /\ submitted = TRUE
    /\ streaming = TRUE
    /\ messages = <<>>
    /\ progress = <<>>
    /\ mounted = TRUE
    /\ fetches = <<>>
    /\ sources = <<[url |-> <<"a">>, readyState |-> "OPEN", closes |-> 0]>>
    /\ received = <<>>
    /\ posted = <<"a">>
    /\ exported = Text(<<>>)
    /\ last = [op |-> "handleView", c |-> 1, ev |-> 0, dropped |-> 0]
    /\ \E i \in 1..Len(StepOptions), j \in 1..Len(DataOptions),
          k \in 1..Len(MessageOptions), l \in 1..Len(ErrorOptions) :
          payload = Payload(StepOptions[i], DataOptions[j],
                            MessageOptions[k], ErrorOptions[l])

\* Faulty variant of handleDownloadParsed: the export also empties the timeline.
handleDownloadParsedClears ==
    /\ mounted
    /\ Len(messages) > 0
    /\ ~streaming
    /\ exported' = getAnalysisText(messages)
    /\ messages' = <<>>
    /\ last' = Did("handleDownloadParsed", 0, 0)
    /\ UNCHANGED <<payload, posted, curriculum, submitted, streaming, progress,
                   mounted, fetches, sources, received>>

\* The Download PDF button is rendered when messages.length > 0 && !streaming;
\* the document saved holds the text getAnalysisText returned.
handleDownloadParsed ==
    /\ mounted
    /\ Len(messages) > 0
    /\ ~streaming
    /\ exported' = getAnalysisText(messages)
    /\ last' = Did("handleDownloadParsed", 0, 0)
    /\ UNCHANGED <<payload, posted, curriculum, submitted, streaming, messages,
                   progress, mounted, fetches, sources, received>>

\* eventSource.onmessage for the body payload
onmessagePayload ==
    /\ sources[1].readyState = "OPEN"
    /\ Len(messages) < MaxPayloads
    /\ IF Throws(payload) THEN onmessageCatch(1) ELSE onmessageTry(1, payload.val)
    /\ last' = Did("onmessagePayload", 1, 0)
    /\ UNCHANGED <<exported, payload, posted, curriculum, submitted, mounted, fetches,
                   received>>

NextClassify ==
    \/ onmessagePayload
    \/ onerror(1)
    \/ handleDownloadParsed

SpecClassify == InitClassify /\ [][NextClassify]_vars

(***************************************************************************)
(* What the component shows, read as the session's phase: the streaming    *)
(* indicator, then the timeline (a timeline that ends in an error entry is *)
(* a failed run), then the submitted flag.                                 *)
(***************************************************************************)
Phase ==
    IF streaming THEN "streaming"
    ELSE IF messages /= <<>>
    THEN IF messages[Len(messages)].type = "error" THEN "failed" ELSE "complete"
    ELSE IF submitted THEN "submitted" ELSE "idle"

OpenSources == {c \in 1..Len(sources) : IsOpen(sources[c])}

\* The session owns source c: the component is rendered, shows the streaming
\* indicator, and c is the source its last handleView created.
Owns(c) == mounted /\ streaming /\ c = Len(sources)

IsPrefix(s, t) == Len(s) <= Len(t) /\ SubSeq(t, 1, Len(s)) = s

(***************************************************************************)
(* Properties of the session.                                              *)
(***************************************************************************)
\* The last entry of the timeline.
LastMessage == messages[Len(messages)]

\* What onmessage records for an event body.
Outcome(raw) == IF Throws(raw) THEN parseErrorMessage ELSE message(raw.val)

\* C1: the session never has more than one open push-event connection, and
\* handleView creates a connection only when every earlier one is closed.
C1_AtMostOneOpenConnection ==
    /\ [](Cardinality(OpenSources) <= 1)
    /\ [][last'.op = "handleView" => OpenSources = {}]_vars

\* A second connection was opened after the first one had been closed.
C1_Witness ==
    /\ last.op = "handleView"
    /\ last.dropped >= 1
    /\ Cardinality(OpenSources) = 1

\* C2: an event that arrives on a connection the session no longer owns (the
\* run ended, the component went away) appends nothing to the timeline, adds
\* nothing to progress and leaves the phase as it was.
C2_LateEventIgnored ==
    [][(last'.op \in {"onmessage", "discard"} /\ ~Owns(last'.c))
         => /\ UNCHANGED <<messages, progress, streaming, submitted>>
            /\ Phase' = Phase]_vars

\* An event arrived on the connection of a run that had ended.
C2_Witness ==
    /\ last.op = "discard"
    /\ mounted
    /\ Phase \in {"complete", "failed"}
    /\ messages /= <<>>

\* C3: once the session has ended or its component is gone, no connection is
\* open.
C3_NoConnectionOutlivesSession ==
    (~mounted \/ ~streaming) => OpenSources = {}

\* C4: a well-formed event on the owned connection ends the run exactly when
\* its step is complete or it carries an error field; the phase is then failed
\* (error field) or complete and the connection closed; otherwise the phase
\* stays streaming and the connection open.
C4_TerminalExactlyOnCompleteOrError ==
    [][(last'.op = "onmessage" /\ Owns(last'.c) /\ Events[last'.ev].wf
            /\ Events[last'.ev].val.t = "object")
         => LET parsed == Events[last'.ev].val
                hasError == "error" \in DOMAIN parsed.f
                complete == Is(Get(parsed, "step"), "complete")
            IN  IF complete \/ hasError
                THEN /\ Phase' = IF hasError THEN "failed" ELSE "complete"
                     /\ ~IsOpen(sources'[last'.c])
                ELSE /\ Phase' = "streaming"
                     /\ IsOpen(sources'[last'.c])]_vars

\* C5: a transport error on the owned connection appends exactly one error
\* entry with the fixed text, makes the phase failed and closes the connection.
C5_TransportError ==
    [][(last'.op = "onerror" /\ Owns(last'.c))
         => /\ Len(messages') = Len(messages) + 1
            /\ IsPrefix(messages, messages')
            /\ messages'[Len(messages')].type = "error"
            /\ messages'[Len(messages')].content = Str("[Stream ended or error occurred]")
            /\ Phase' = "failed"
            /\ ~IsOpen(sources'[last'.c])]_vars

\* A transport error ended a run that had already recorded an entry.
C5_Witness ==
    /\ last.op = "onerror"
    /\ mounted
    /\ Len(messages) >= 2
    /\ Phase = "failed"

\* C6: after a failed job-creation request the phase is failed, the timeline
\* is exactly one error entry, and no connection is open or can be opened.
C6_FailedSubmission ==
    (last.op \in {"handleSubmitNotOk", "handleSubmitCatch"} /\ mounted)
        => /\ Phase = "failed"
           /\ Len(messages) = 1
           /\ messages[1].type = "error"
           /\ OpenSources = {}
           /\ ~handleViewEnabled

\* C7: an event body that is not JSON, or is the JSON value null, is recorded
\* as one error entry with the fixed text and no step; the handler ends
\* normally with that entry appended.
C7_MalformedBecomesErrorEntry ==
    [][(last'.op = "onmessage" /\ Owns(last'.c)
            /\ (~Events[last'.ev].wf \/ Events[last'.ev].val.t = "null"))
         => /\ Len(messages') = Len(messages) + 1
            /\ IsPrefix(messages, messages')
            /\ messages'[Len(messages')].type = "error"
            /\ messages'[Len(messages')].content = Str("Error parsing stream data.")
            /\ messages'[Len(messages')].step = Undef]_vars

\* A body that is not JSON was received and recorded.
C7_Witness ==
    /\ last.op = "onmessage"
    /\ mounted
    /\ ~Events[last.ev].wf
    /\ messages /= <<>>
    /\ LastMessage.type = "error"

\* C8: a malformed event on the owned connection leaves the phase streaming
\* and the connection open.
C8_MalformedDoesNotTerminate ==
    [][(last'.op = "onmessage" /\ Owns(last'.c) /\ ~Events[last'.ev].wf)
         => /\ Phase' = "streaming"
            /\ IsOpen(sources'[last'.c])]_vars

\* C9: after an event was received the timeline is, entry by entry and in
\* order, what onmessage records for the events received in this run.
C9_TimelineFollowsReceipt ==
    (last.op = "onmessage" /\ mounted)
        => /\ Len(messages) = Len(received)
           /\ \A i \in 1..Len(received) : messages[i] = Outcome(Events[received[i]])

\* C10: a received event, an event that arrives late and a transport error
\* each leave the timeline they found as a prefix of the new one.
C10_AppendOnly ==
    [][last'.op \in {"onmessage", "discard", "onerror"}
         => IsPrefix(messages, messages')]_vars

\* An upstream error or a transport failure ended a run, and the entry
\* recorded before it is still the first entry.
C10_Witness ==
    /\ mounted
    /\ \/ last.op = "onerror"
       \/ last.op = "onmessage" /\ LastMessage.type = "error"
    /\ Len(messages) = 2
    /\ Len(received) >= 1
    /\ messages[1] = Outcome(Events[received[1]])
    /\ messages[1].type /= "error"

\* C11: progress never holds a step twice; an event on the owned connection
\* whose step is already in progress leaves progress as it is, and one whose
\* step is not yet there appends it at the end.
C11_ProgressIsOrderedSet ==
    /\ [](\A i, j \in 1..Len(progress) : progress[i] = progress[j] => i = j)
    /\ [][(last'.op = "onmessage" /\ Owns(last'.c) /\ ~Throws(Events[last'.ev])
             /\ Truthy(Get(Events[last'.ev].val, "step")))
          => LET step == Get(Events[last'.ev].val, "step")
             IN  IF \E i \in 1..Len(progress) : progress[i] = step
                 THEN progress' = progress
                 ELSE progress' = Append(progress, step)]_vars

\* The same step was received twice, after another step, and is recorded once,
\* at its first position.
C11_Witness ==
    /\ last.op = "onmessage"
    /\ mounted
    /\ Len(received) = 3
    /\ received[1] = received[3]
    /\ received[1] /= received[2]
    /\ Len(progress) = 2
    /\ progress[1] = Get(Events[received[1]].val, "step")

\* C12: the text in the URL of a connection just opened is the text that the
\* successful job-creation request of that session carried, whatever was typed
\* into the input field in between.
C12_StreamsThePostedText ==
    last.op = "handleView" => sources[last.c].url = posted

C14_SubmitOnlyWhenIdleOrTerminal ==
    [][Len(fetches') > Len(fetches)
        => /\ Phase \in {"idle", "complete", "failed"}
           /\ fetches = <<>>]_vars

\* C15: once a new run is submitted nothing of an earlier run is left: the
\* submission empties messages and progress while no connection is open, and
\* from then on every entry of messages is the outcome of an event received in
\* the current run or an error entry of a request or of the stream, and every
\* step in progress is the step of an event received in the current run.
C15_NothingFromEarlierRun ==
    /\ [](/\ \A i \in 1..Len(messages) :
               \/ messages[i] = postFailedMessage
               \/ messages[i] = fetchErrorMessage
               \/ messages[i] = streamErrorMessage
               \/ \E j \in 1..Len(received) :
                      messages[i] = Outcome(Events[received[j]])
          /\ \A i \in 1..Len(progress) :
               \E j \in 1..Len(received) :
                  /\ ~Throws(Events[received[j]])
                  /\ progress[i] = Get(Events[received[j]].val, "step"))
    /\ [][Len(fetches') > Len(fetches)
            => /\ messages' = <<>>
               /\ progress' = <<>>
               /\ \A c \in 1..Len(sources') : ~IsOpen(sources'[c])]_vars

\* A new run has just been submitted after an earlier run was streamed and
\* ended: its connection is still there, closed.
C15_Witness ==
    /\ last.op = "handleSubmit"
    /\ Len(fetches) = 1
    /\ Len(sources) = 1
    /\ ~IsOpen(sources[1])
    /\ messages = <<>>
    /\ progress = <<>>

\* C16: when the session is over, by a run that ended or by the component
\* going away, every connection it opened has been closed by exactly one
\* close() call and none is open.
C16_ReleasedExactlyOnce ==
    (~mounted \/ ~streaming)
        => \A c \in 1..Len(sources) :
              /\ sources[c].closes = 1
              /\ ~IsOpen(sources[c])

\* The field named k is present in the object v, whatever its value.
Has(v, k) == v.t = "object" /\ k \in DOMAIN v.f

\* C17: the entry recorded for a well-formed payload has the kind of the first
\* rule that matches: a markdown step gives markdown, a list step gives list,
\* jobs_fetched gives the job table, a present error field gives error, and
\* anything else, with or without a message field, gives text.
C17_KindByFirstMatchingRule ==
    last.op = "onmessagePayload"
        => LET step == Get(payload.val, "step") IN
           LastMessage.type =
               IF \/ Is(step, "summary_generated")
                  \/ Is(step, "major_project_generated")
                  \/ Is(step, "mini_projects_generated")
               THEN "markdown"
               ELSE IF \/ Is(step, "skills_extracted")
                       \/ Is(step, "roles_identified")
                       \/ Is(step, "gaps_analyzed")
               THEN "list"
               ELSE IF Is(step, "jobs_fetched") THEN "jobs"
               ELSE IF Has(payload.val, "error") THEN "error"
               ELSE "text"

\* C18: the entry recorded for a payload that is classified error because of
\* its error field has that field's text as content, whatever data or message
\* the payload carries besides.
C18_ErrorEntryShowsErrorText ==
    (last.op = "onmessagePayload" /\ LastMessage.type = "error")
        => LastMessage.content = Get(payload.val, "error")

\* C19: the entry recorded for a payload whose step is skills_extracted,
\* roles_identified or gaps_analyzed is a list entry whose content is data
\* when data is a sequence, else data.missing_skills when present, else
\* data.job_market_skills when present, else the empty sequence, which is
\* also the content when data is absent.
C19_ListContent ==
    LET step == Get(payload.val, "step")
        data == Get(payload.val, "data")
    IN  (/\ last.op = "onmessagePayload"
         /\ \/ Is(step, "skills_extracted")
            \/ Is(step, "roles_identified")
            \/ Is(step, "gaps_analyzed"))
            => /\ LastMessage.type = "list"
               /\ LastMessage.content =
                      IF data.t = "array" THEN data
                      ELSE IF Has(data, "missing_skills")
                      THEN data.f["missing_skills"]
                      ELSE IF Has(data, "job_market_skills")
                      THEN data.f["job_market_skills"]
                      ELSE Arr(<<>>)

\* A gaps_analyzed payload whose data has an empty missing_skills and a
\* non-empty job_market_skills was recorded with the empty list.
C19_Witness ==
    /\ last.op = "onmessagePayload"
    /\ Is(Get(payload.val, "step"), "gaps_analyzed")
    /\ Has(Get(payload.val, "data"), "missing_skills")
    /\ Has(Get(payload.val, "data"), "job_market_skills")
    /\ Has(payload.val, "error")
    /\ LastMessage.type = "list"
    /\ LastMessage.content = Arr(<<>>)

\* C20: a well-formed payload that matches no step rule and has no error field
\* is recorded as a text entry whose content is the message text when a
\* message field is present and the empty text otherwise.
C20_TextEntryContent ==
    LET step == Get(payload.val, "step") IN
    (/\ last.op = "onmessagePayload"
     /\ \A rule \in {"summary_generated", "major_project_generated",
                      "mini_projects_generated", "skills_extracted",
                      "roles_identified", "gaps_analyzed", "jobs_fetched"} :
           ~Is(step, rule)
     /\ ~Has(payload.val, "error"))
        => /\ Len(messages) > 0
           /\ LastMessage.type = "text"
           /\ LastMessage.content =
                  IF Has(payload.val, "message")
                  THEN Get(payload.val, "message")
                  ELSE Str("")

\* The fields of a job record.
JobFields ==
    {"title", "company", "location", "source_platform", "posted_date", "salary",
     "description", "job_url"}

IsRecord(v) == v.t = "object"

\* A job record with every missing field set to the empty text.
Filled(job) == Obj([k \in JobFields |-> IF Has(job, k) THEN job.f[k] ELSE Str("")])

RECURSIVE FilledAll(_)
FilledAll(jobs) ==
    IF jobs = <<>> THEN <<>> ELSE <<Filled(Head(jobs))>> \o FilledAll(Tail(jobs))

\* C21: the entry recorded for a payload with step jobs_fetched is a job table
\* whose content has one record for each record-shaped element of data, in
\* the original order, each with its missing fields set to the empty text;
\* elements that are not records are dropped.
C21_JobTableContent ==
    LET data == Get(payload.val, "data") IN
    (last.op = "onmessagePayload" /\ Is(Get(payload.val, "step"), "jobs_fetched"))
        => /\ LastMessage.type = "jobs"
           /\ LastMessage.content =
                  Arr(IF data.t = "array"
                      THEN FilledAll(SelectSeq(data.a, IsRecord))
                      ELSE <<>>)

\* The distinct steps carried by the entries of msgs, in order of first
\* appearance.
RECURSIVE FirstSeen(_)
FirstSeen(msgs) ==
    IF msgs = <<>> THEN <<>>
    ELSE LET before == FirstSeen(SubSeq(msgs, 1, Len(msgs) - 1))
             step == msgs[Len(msgs)].step
         IN  IF step.t = "undefined" \/ \E i \in 1..Len(before) : before[i] = step
             THEN before
             ELSE Append(before, step)

\* C22: the entry appended for a well-formed event that carries a step carries
\* that step, whatever its type, and the step is in progress afterwards; so
\* progress is always the distinct steps of the entries of messages, in order
\* of first appearance.
C22_ProgressMirrorsTimeline ==
    /\ [][(/\ last'.op = "onmessage"
            /\ Owns(last'.c)
            /\ ~Throws(Events[last'.ev])
            /\ Has(Events[last'.ev].val, "step"))
            => LET step == Get(Events[last'.ev].val, "step") IN
               /\ messages'[Len(messages')].step = step
               /\ \E i \in 1..Len(progress') : progress'[i] = step]_vars
    /\ [](progress = FirstSeen(messages))

TableText(msg) ==
    <<msg.step.s, ":\n">> \o header \o <<"\n">>
    \o join([i \in 1..Len(msg.content.a) |-> row(msg.content.a[i])], "\n")

\* C24: in the exported text every job table entry, also one without records,
\* is its step label, the header row and one row per record in the records'
\* order, and the texts of the entries follow each other in timeline order
\* with the separator between them.
C24_TableRowsAndSeparator ==
    (/\ last.op = "handleDownloadParsed"
     /\ \A i \in 1..Len(messages) : ~throws(messages[i]))
        => exported.text =
              join([i \in 1..Len(messages) |->
                      IF messages[i].type = "jobs" /\ messages[i].content.t = "array"
                      THEN TableText(messages[i])
                      ELSE segment(messages[i])],
                   separator)

\* C25: when an event on the owned connection ends the run because of its
\* error field, the entry appended for it is an error entry, also when the
\* event carries a markdown, list or jobs_fetched step.
C25_ErrorEndsWithErrorEntry ==
    [][(/\ last'.op = "onmessage"
        /\ Owns(last'.c)
        /\ ~Throws(Events[last'.ev])
        /\ Truthy(Get(Events[last'.ev].val, "error")))
        => /\ ~streaming'
           /\ messages'[Len(messages')].type = "error"]_vars

\* The step of the event received last among those of ids that carry a step;
\* Undef when none does.
RECURSIVE LastStep(_)
LastStep(ids) ==
    IF ids = <<>> THEN Undef
    ELSE LET raw == Events[ids[Len(ids)]] IN
         IF ~Throws(raw) /\ Truthy(Get(raw.val, "step"))
         THEN Get(raw.val, "step")
         ELSE LastStep(SubSeq(ids, 1, Len(ids) - 1))

\* C26: whenever progress holds a step, the position of the current step is
\* the catalog position of the step of the event received last among those
\* that carried a step, also when that step had been received before.
C26_CurrentStepIsLastReceived ==
    (mounted /\ Len(progress) > 0) => currentStepIdx = findIndex(LastStep(received))

C28_StaleResponseIgnored ==
    [][(/\ last'.op \in {"handleSubmitOk", "handleSubmitNotOk", "handleSubmitCatch"}
        /\ last'.c < Len(fetches))
        => UNCHANGED <<submitted, messages>>]_vars

\* C29: as long as the component is rendered, the streaming indicator is true
\* exactly when a connection is open: View Results raises it with the
\* connection it opens, and a terminal event, a body that fails to parse and a
\* transport error clear it with the connection they close.
C29_StreamingIffConnectionOpen ==
    /\ [](mounted => (streaming <=> OpenSources /= {}))
    /\ [][(mounted /\ OpenSources = {} /\ OpenSources' /= {})
            => (last'.op = "handleView" /\ streaming')]_vars
    /\ [][(mounted /\ OpenSources /= {} /\ OpenSources' = {})
            => (last'.op \in {"onmessage", "onerror"} /\ ~streaming')]_vars

\* A body that failed to parse has closed the connection and cleared the
\* indicator.
C29_Witness ==
    /\ last.op = "onmessage"
    /\ Throws(Events[last.ev])
    /\ mounted
    /\ ~streaming
    /\ OpenSources = {}
    /\ sources[last.c].closes = 1

\* C30: getAnalysisText gives a text for every timeline a run can leave
\* behind; it never throws.
C30_FlattenIsTotal ==
    last.op = "handleDownloadParsed" => ~exported.raised

\* C31: Analyze on an input that is empty or all blanks does nothing: no
\* job-creation request is sent, and the phase, the timeline, progress, the
\* submitted flag and the connections stay as they are.
C31_BlankSubmitIsNoOp ==
    [][(/\ last'.op = "handleSubmit"
        /\ \A i \in 1..Len(curriculum) : curriculum[i] = " ")
        => /\ UNCHANGED <<curriculum, submitted, streaming, messages, progress,
                          mounted, fetches, sources, received, posted>>
           /\ Phase' = Phase]_vars

\* Analyze was clicked on a blank input after a run had ended: the timeline
\* and the submitted flag of that run are still there and nothing was sent.
C31_Witness ==
    /\ last.op = "handleSubmit"
    /\ curriculum = <<" ">>
    /\ submitted
    /\ Len(messages) > 0
    /\ Len(progress) > 0
    /\ fetches = <<>>
    /\ Phase \in {"complete", "failed"}

====
